---- MODULE Spec2Model ----
(***************************************************************************)
(* A model of astrbot_plugin_plugins_summary (src/main.py): the class      *)
(* PluginsSummary, its scan of the plugins root (_load_plugins_info,       *)
(* _parse_commands), its four command handlers (async generators that      *)
(* suspend at one yield) and the temporary image file of _text_to_image.   *)
(*                                                                         *)
(* Python strings are sequences of one-character strings, so that          *)
(* substring tests, int() parsing, strip() and ordering are computed.      *)
(* Python values that may be a str, an int or None are tagged records of   *)
(* one shape (Str, IntV, NoneV).                                           *)
(***************************************************************************)
EXTENDS Integers, Sequences, FiniteSets, Bags, TLC

\* ------------------------------------------------------------------ bounds

\* Handler invocations that may be suspended at their yield at the same time.
MaxInv == 2
\* Entries of the plugins root.
MaxRoot == 3

\* ------------------------------------------------------- Python strings

S1(a) == <<a>>
S2(a, b) == <<a, b>>

\* The characters used, in code point order (str comparison is by code point).
CharOrder ==
    << " ", "+", "-", "0", "1", "2", "3", "4", "5", "6", "7", "8", "9",
       "N", "_", "a", "b", "c", "d", "e", "f", "g", "h", "i", "j", "k", "l",
       "m", "n", "o", "p", "q", "r", "s", "t", "u", "v", "w", "x", "y", "z" >>

Ord(c) == CHOOSE i \in 1..Len(CharOrder) : CharOrder[i] = c

Digits == {"0", "1", "2", "3", "4", "5", "6", "7", "8", "9"}

DigitVal(c) == Ord(c) - Ord("0")

\* a < b for two str values.
RECURSIVE StrLess(_, _)
StrLess(a, b) ==
    IF b = <<>> THEN FALSE
    ELSE IF a = <<>> THEN TRUE
    ELSE IF Head(a) = Head(b) THEN StrLess(Tail(a), Tail(b))
    ELSE Ord(Head(a)) < Ord(Head(b))

\* q in s for two str values: q is a contiguous part of s.
Contains(q, s) ==
    \E i \in 0..(Len(s) - Len(q)) : \A j \in 1..Len(q) : s[i + j] = q[j]

\* s.strip()
RECURSIVE LStrip(_)
LStrip(s) == IF s # <<>> /\ Head(s) = " " THEN LStrip(Tail(s)) ELSE s

RECURSIVE RStrip(_)
RStrip(s) ==
    IF s # <<>> /\ s[Len(s)] = " " THEN RStrip(SubSeq(s, 1, Len(s) - 1)) ELSE s

Strip(s) == LStrip(RStrip(s))

\* str(n) for a natural number n.
RECURSIVE NatStr(_)
NatStr(n) ==
    IF n < 10 THEN <<CharOrder[Ord("0") + n]>>
    ELSE NatStr(n \div 10) \o <<CharOrder[Ord("0") + (n % 10)]>>

IntStr(n) == IF n < 0 THEN <<"-">> \o NatStr(-n) ELSE NatStr(n)

\* ------------------------------------------------------- Python values

Str(s) == [t |-> "str", s |-> s, n |-> 0]
IntV(n) == [t |-> "int", s |-> <<>>, n |-> n]
NoneV == [t |-> "none", s |-> <<>>, n |-> 0]

\* f"{v}"
Fmt(v) ==
    CASE v.t = "str" -> v.s
      [] v.t = "int" -> IntStr(v.n)
      [] OTHER -> <<"N", "o", "n", "e">>

\* bool(v)
Truthy(v) ==
    CASE v.t = "str" -> v.s # <<>>
      [] v.t = "int" -> v.n # 0
      [] OTHER -> FALSE

\* The digits of an int() literal after its sign: digits, with single
\* underscores allowed between digits.
RECURSIVE DigitRun(_, _)
DigitRun(s, afterDigit) ==
    IF s = <<>> THEN afterDigit
    ELSE IF Head(s) \in Digits THEN DigitRun(Tail(s), TRUE)
    ELSE IF Head(s) = "_" THEN afterDigit /\ Tail(s) # <<>>
                               /\ Head(Tail(s)) \in Digits
                               /\ DigitRun(Tail(s), FALSE)
    ELSE FALSE

RECURSIVE DigitsValue(_, _)
DigitsValue(s, acc) ==
    IF s = <<>> THEN acc
    ELSE IF Head(s) = "_" THEN DigitsValue(Tail(s), acc)
    ELSE DigitsValue(Tail(s), 10 * acc + DigitVal(Head(s)))

\* int(q): [ok |-> FALSE] stands for ValueError.
ParseInt(q) ==
    LET s == Strip(q)
        signed == s # <<>> /\ Head(s) \in {"+", "-"}
        body == IF signed THEN Tail(s) ELSE s
    IN  IF DigitRun(body, FALSE)
        THEN [ok |-> TRUE,
              n |-> IF signed /\ Head(s) = "-" THEN -DigitsValue(body, 0)
                    ELSE DigitsValue(body, 0)]
        ELSE [ok |-> FALSE, n |-> 0]

\* ------------------------------------------------ the plugins root on disk

\* The directory name the scan skips (src/main.py line 32), spelled out.
SelfName ==
    << "a", "s", "t", "r", "b", "o", "t", "_", "p", "l", "u", "g", "i", "n", "_",
       "p", "l", "u", "g", "i", "n", "s", "_", "s", "u", "m", "m", "a", "r", "y" >>

\* What yaml.safe_load returns: None (an empty document), a mapping (a function
\* from its keys to values), or another kind of document (a scalar, a list).
DocNone == [t |-> "none", m |-> <<>>]
DocMap(m) == [t |-> "map", m |-> m]
DocScalar == [t |-> "scalar", m |-> <<>>]

\* metadata.yaml of one plugin directory. st: "absent", "ok" (doc is what
\* safe_load returns), "malformed" (yaml.YAMLError), "unreadable"
\* (PermissionError), "undecodable" (UnicodeDecodeError from the utf-8 reader).
MetaFile(st, doc) == [st |-> st, doc |-> doc]

\* A node of the syntax tree of a main.py: t is "Module", "ClassDef" or
\* "AsyncFunctionDef"; body holds the statements nested in it.
Node(t, decorator_list, doc, body) ==
    [t |-> t, decorator_list |-> decorator_list, doc |-> doc, body |-> body]

\* A decorator: command says it is a call of filter.command; arg is the value
\* of its first argument when that is a constant, NoneV otherwise.
Decorator(command, arg) == [command |-> command, arg |-> arg]

\* main.py of one plugin directory. st: "absent", "ok" (tree is its syntax
\* tree), "syntaxerr", "unreadable", "undecodable".
MainFile(st, tree) == [st |-> st, tree |-> tree]

\* One entry of the plugins root.
Entry(name, isdir, meta, main) ==
    [name |-> name, isdir |-> isdir, meta |-> meta, main |-> main]

\* The label a usage line of a docstring starts with (three CJK characters
\* in the source, written here in the model's characters).
UsageLabel == <<"u", ":">>

StartsWith(s, p) == Len(s) >= Len(p) /\ SubSeq(s, 1, Len(p)) = p

\* --------------------------------------------------------- _parse_commands

\* ast.walk: breadth first, a node's children appended to the queue's end.
RECURSIVE WalkQueue(_)
WalkQueue(todo) ==
    IF todo = <<>> THEN <<>>
    ELSE <<Head(todo)>> \o WalkQueue(Tail(todo) \o Head(todo).body)

walk(tree) == WalkQueue(<<tree>>)

\* The first line after the first that starts with the usage label.
RECURSIVE FirstUsage(_)
FirstUsage(lines) ==
    IF lines = <<>> THEN <<>>
    ELSE IF StartsWith(Strip(Head(lines)), UsageLabel) THEN Strip(Head(lines))
    ELSE FirstUsage(Tail(lines))

Command(name, description, usage) ==
    [name |-> name, description |-> description, usage |-> usage]

\* The commands one function definition contributes: one per filter.command
\* decorator with a truthy constant first argument.
RECURSIVE NodeCommands(_, _)
NodeCommands(node, decorators) ==
    IF decorators = <<>> THEN <<>>
    ELSE LET d == Head(decorators)
             rest == NodeCommands(node, Tail(decorators))
         IN  IF d.command /\ Truthy(d.arg)
             THEN <<Command(d.arg,
                            IF node.doc = <<>> THEN <<>> ELSE Strip(node.doc[1]),
                            IF node.doc = <<>> THEN <<>>
                            ELSE FirstUsage(Tail(node.doc)))>> \o rest
             ELSE rest

RECURSIVE CommandsOf(_)
CommandsOf(nodes) ==
    IF nodes = <<>> THEN <<>>
    ELSE (IF Head(nodes).t = "AsyncFunctionDef"
          THEN NodeCommands(Head(nodes), Head(nodes).decorator_list)
          ELSE <<>>) \o CommandsOf(Tail(nodes))

\* _parse_commands(content): a syntax error is caught inside and gives [].
_parse_commands(main) ==
    IF main.st = "ok" THEN CommandsOf(walk(main.tree)) ELSE <<>>

\* ------------------------------------------------------ _load_plugins_info

PluginInfo(name, metadata, commands) ==
    [name |-> name, metadata |-> metadata, commands |-> commands]

\* The exceptions of one plugin that no handler inside the loop catches: they
\* reach the handlers around the loop and end the scan.
EscapesLoop(e) == e.meta.st = "undecodable" \/ e.main.st = "undecodable"

Skipped(e) == ~e.isdir \/ e.name = SelfName

LoadedMetadata(meta) == IF meta.st = "ok" THEN meta.doc ELSE DocNone

LoadedCommands(main) ==
    IF main.st \in {"absent", "unreadable"} THEN <<>> ELSE _parse_commands(main)

RECURSIVE LoadLoop(_, _)
LoadLoop(entries, acc) ==
    IF entries = <<>> THEN acc
    ELSE LET e == Head(entries)
         IN  IF Skipped(e) THEN LoadLoop(Tail(entries), acc)
             ELSE IF EscapesLoop(e) THEN acc
             ELSE LoadLoop(Tail(entries),
                           Append(acc, PluginInfo(e.name, LoadedMetadata(e.meta),
                                                  LoadedCommands(e.main))))

\* The new value of self.plugins_info: it is reset first, so nothing of the
\* previous value is kept. An unreadable root raises from iterdir().
_load_plugins_info(old, readable, entries) ==
    IF readable THEN LoadLoop(entries, <<>>) ELSE <<>>

\* ------------------------------------------------------------- the views

\* One line of a text: its kind (the fixed wording of the line), a number and
\* a str formatted into it.
Line(k, n, s) == [k |-> k, n |-> n, s |-> s]

\* The defaults the views pass to dict.get (CJK words in the source).
NoDesc == Str(<<"n", "o", "d", "e", "s", "c">>)
NoValue == Str(<<"n", "o">>)

\* What a view computes: raised says an exception left the handler before its
\* yield (text is then unused); target is the record the detail view selected
\* (its 1-based place in plugins_info, 0 for none).
Outcome(raised, text, target) == [raised |-> raised, text |-> text, target |-> target]

Raise == Outcome(TRUE, <<>>, 0)

\* plugin.get("metadata", {}): the key is always present, so the default is
\* never used and the value may be None.
MetadataOf(plugin) == plugin.metadata

\* metadata.get raises AttributeError unless metadata is a mapping.
HasGet(metadata) == metadata.t = "map"

Get(metadata, key, default) ==
    IF key \in DOMAIN metadata.m THEN metadata.m[key] ELSE default

\* The lines of plugins_info[i..] in the listing.
RECURSIVE ListEntries(_, _)
ListEntries(info, i) ==
    IF i > Len(info) THEN <<>>
    ELSE LET plugin == info[i]
             metadata == MetadataOf(plugin)
         IN  << Line("blank", 0, <<>>),
                Line("entry", i, Fmt(Get(metadata, "name", Str(plugin.name)))),
                Line("desc", 0, Fmt(Get(metadata, "desc", NoDesc))) >>
             \o (IF plugin.commands # <<>>
                 THEN <<Line("count", Len(plugin.commands), <<>>)>> ELSE <<>>)
             \o ListEntries(info, i + 1)

\* show_plugins_list, from after the scan to the text.
ListView(info) ==
    IF info = <<>> THEN Outcome(FALSE, <<Line("no_plugins", 0, <<>>)>>, 0)
    ELSE IF \E i \in 1..Len(info) : ~HasGet(MetadataOf(info[i])) THEN Raise
    ELSE Outcome(FALSE, <<Line("list_header", 0, <<>>)>> \o ListEntries(info, 1), 0)

\* The search by name from plugins_info[i]: the first plugin whose metadata
\* name or directory name contains the query. [raised, target].
RECURSIVE FindByName(_, _, _)
FindByName(info, i, query) ==
    IF i > Len(info) THEN [raised |-> FALSE, target |-> 0]
    ELSE LET plugin == info[i]
             metadata == MetadataOf(plugin)
             name == Get(metadata, "name", Str(<<>>))
         IN  IF ~HasGet(metadata) THEN [raised |-> TRUE, target |-> 0]
             ELSE IF name.t # "str" THEN [raised |-> TRUE, target |-> 0]
             ELSE IF Contains(query, name.s) \/ Contains(query, plugin.name)
                  THEN [raised |-> FALSE, target |-> i]
             ELSE FindByName(info, i + 1, query)

\* The search by 1-based number.
FindByIndex(info, n) ==
    LET index == n - 1
    IN  [raised |-> FALSE,
         target |-> IF 0 <= index /\ index < Len(info) THEN index + 1 ELSE 0]

RECURSIVE CommandLines(_)
CommandLines(commands) ==
    IF commands = <<>> THEN <<>>
    ELSE LET cmd == Head(commands)
         IN  << Line("blank", 0, <<>>),
                Line("cmd", 0, Fmt(cmd.name)),
                Line("cmd_desc", 0, cmd.description) >>
             \o (IF cmd.usage # <<>> THEN <<Line("cmd_usage", 0, cmd.usage)>> ELSE <<>>)
             \o CommandLines(Tail(commands))

DetailLines(plugin) ==
    LET metadata == MetadataOf(plugin)
    IN  << Line("blank", 0, <<>>),
           Line("detail_header", 0, <<>>),
           Line("id", 0, plugin.name),
           Line("name", 0, Fmt(Get(metadata, "name", NoValue))),
           Line("desc", 0, Fmt(Get(metadata, "desc", NoValue))),
           Line("help", 0, Fmt(Get(metadata, "help", NoValue))),
           Line("version", 0, Fmt(Get(metadata, "version", NoValue))),
           Line("author", 0, Fmt(Get(metadata, "author", NoValue))),
           Line("repo", 0, Fmt(Get(metadata, "repo", NoValue))) >>
        \o (IF plugin.commands # <<>>
            THEN << Line("blank", 0, <<>>),
                    Line("cmds_header", Len(plugin.commands), <<>>) >>
                 \o CommandLines(plugin.commands)
            ELSE << Line("blank", 0, <<>>), Line("no_cmds", 0, <<>>) >>)

\* The message of a request after its command word: NoArg when split() finds
\* a single word, else the rest of the message (its leading blanks removed by
\* split, its trailing ones kept).
NoArg == <<" ">>

\* show_plugin_details, from after the scan to the text.
DetailView(info, rest) ==
    IF LStrip(rest) = <<>> THEN Outcome(FALSE, <<Line("need_arg", 0, <<>>)>>, 0)
    ELSE LET query == Strip(LStrip(rest))
             parsed == ParseInt(query)
             found == IF parsed.ok THEN FindByIndex(info, parsed.n)
                      ELSE FindByName(info, 1, query)
         IN  IF found.raised THEN Raise
             ELSE IF found.target = 0
                  THEN Outcome(FALSE, <<Line("not_found", 0, query)>>, 0)
             ELSE IF ~HasGet(MetadataOf(info[found.target])) THEN Raise
             ELSE Outcome(FALSE, DetailLines(info[found.target]), found.target)

\* One entry of all_commands.
Item(plugin, cmd) ==
    [plugin |-> plugin, command |-> cmd.name,
     description |-> cmd.description, usage |-> cmd.usage]

RECURSIVE ItemsOf(_, _)
ItemsOf(plugin_name, commands) ==
    IF commands = <<>> THEN <<>>
    ELSE <<Item(plugin_name, Head(commands))>> \o ItemsOf(plugin_name, Tail(commands))

\* all_commands before it is sorted: plugins in scan order, each plugin's
\* commands in the order _parse_commands gave them.
RECURSIVE Flatten(_)
Flatten(info) ==
    IF info = <<>> THEN <<>>
    ELSE LET plugin == Head(info)
             plugin_name == Get(MetadataOf(plugin), "name", Str(plugin.name))
         IN  ItemsOf(plugin_name, plugin.commands) \o Flatten(Tail(info))

\* a < b for two sort keys Python can compare.
KeyLess(a, b) == IF a.t = "str" THEN StrLess(a.s, b.s) ELSE a.n < b.n

\* sort() raises TypeError when it has to compare keys of two types.
Sortable(items) ==
    Len(items) < 2
    \/ \E t \in {"str", "int"} : \A i \in 1..Len(items) : items[i].plugin.t = t

\* x put into a sorted list after the entries that are not greater.
RECURSIVE InsertSorted(_, _)
InsertSorted(sorted, x) ==
    IF sorted = <<>> THEN <<x>>
    ELSE IF KeyLess(x.plugin, Head(sorted).plugin) THEN <<x>> \o sorted
    ELSE <<Head(sorted)>> \o InsertSorted(Tail(sorted), x)

\* all_commands.sort(key=plugin): a stable sort.
RECURSIVE SortItems(_, _)
SortItems(items, sorted) ==
    IF items = <<>> THEN sorted
    ELSE SortItems(Tail(items), InsertSorted(sorted, Head(items)))

RECURSIVE GroupLines(_, _)
GroupLines(items, current_plugin) ==
    IF items = <<>> THEN <<>>
    ELSE LET cmd == Head(items)
         IN  (IF cmd.plugin # current_plugin
              THEN << Line("blank", 0, <<>>), Line("group", 0, Fmt(cmd.plugin)) >>
              ELSE <<>>)
             \o <<Line("cmd", 0, Fmt(cmd.command))>>
             \o (IF cmd.description # <<>>
                 THEN <<Line("cmd_desc", 0, cmd.description)>> ELSE <<>>)
             \o (IF cmd.usage # <<>> THEN <<Line("cmd_usage", 0, cmd.usage)>> ELSE <<>>)
             \o GroupLines(Tail(items), cmd.plugin)

\* show_all_commands, from after the scan to the text.
CommandsView(info) ==
    IF \E i \in 1..Len(info) : ~HasGet(MetadataOf(info[i])) THEN Raise
    ELSE LET all_commands == Flatten(info)
         IN  IF all_commands = <<>>
             THEN Outcome(FALSE, <<Line("no_commands", 0, <<>>)>>, 0)
             ELSE IF ~Sortable(all_commands) THEN Raise
             ELSE Outcome(FALSE,
                          <<Line("cmds_total", Len(all_commands), <<>>)>>
                          \o GroupLines(SortItems(all_commands, <<>>), Str(<<>>)),
                          0)

\* refresh_plugins, from after the scan to the text.
RefreshView == Outcome(FALSE, <<Line("refreshed", 0, <<>>)>>, 0)

\* The text of a handler of the given kind.
View(kind, info, rest) ==
    CASE kind = "list" -> ListView(info)
      [] kind = "detail" -> DetailView(info, rest)
      [] kind = "commands" -> CommandsView(info)
      [] OTHER -> RefreshView

\* ---------------------------------------------------------- _text_to_image

\* The drawing loop of _text_to_image: y starts at TopMargin, grows by
\* LineHeight after each line, and the loop ends once y exceeds DrawLimit.
TopMargin == 10
LineHeight == 25
DrawLimit == 1180

RECURSIVE Draw(_, _)
Draw(lines, y) ==
    IF lines = <<>> THEN <<>>
    ELSE IF y + LineHeight > DrawLimit THEN <<Head(lines)>>
    ELSE <<Head(lines)>> \o Draw(Tail(lines), y + LineHeight)

\* What the saved image shows.
Rendered(text) == Draw(text, TopMargin)

\* No temporary file: the value None of img_path.
NoPath == 0

\* The names temporary files may have. A file that is never unlinked keeps
\* its name, so no more than MaxInv files are on disk at once.
TmpPaths == 1..MaxInv

\* A temporary file of one fixed name.
FixedPath(existing) == {1}

\* tempfile.NamedTemporaryFile: the name of the file it creates is the name of
\* no existing file. The names are interchangeable, so the least free one
\* stands for any of them.
FreshPaths(existing) ==
    LET free == TmpPaths \ existing
    IN  {p \in free : \A q \in free : p <= q}

\* ------------------------------------------------------------------ state

VARIABLES
    self_dir,       \* the name of the directory that holds the plugin's main.py
    root_readable,  \* whether iterdir() of the plugins root succeeds
    root,           \* the entries of the plugins root, in iterdir() order
    plugins_info,   \* self.plugins_info
    files,          \* the temporary files on disk: path -> what the file holds
    frames          \* the handler invocations that have not returned yet (a bag)

vars == <<self_dir, root_readable, root, plugins_info, files, frames>>

\* What a temporary file holds: saved says img.save() completed.
FileBody(saved, image) == [saved |-> saved, image |-> image]

\* A handler invocation between its first step and its return. kind, rest,
\* text, img_path and target are its locals; pc is "yielded" (suspended at
\* its yield) or "raised" (an exception is on its way to the caller).
\* created and own_scan are history: the path _text_to_image created in this
\* invocation (NoPath for none) and what a scan of the disk gave when the
\* invocation began.
Frame(kind, rest, pc, text, img_path, target, created, own_scan) ==
    [kind |-> kind, rest |-> rest, pc |-> pc, text |-> text, img_path |-> img_path,
     target |-> target, created |-> created, own_scan |-> own_scan]

RemoveAt(seq, i) == SubSeq(seq, 1, i - 1) \o SubSeq(seq, i + 1, Len(seq))

InsertAt(seq, i, x) == SubSeq(seq, 1, i - 1) \o <<x>> \o SubSeq(seq, i, Len(seq))

WithFile(fs, path, body) ==
    [q \in DOMAIN fs \cup {path} |-> IF q = path THEN body ELSE fs[q]]

WithoutFile(fs, path) == [q \in DOMAIN fs \ {path} |-> fs[q]]

\* What a scan of the disk gives now.
DiskScan == IF root_readable THEN LoadLoop(root, <<>>) ELSE <<>>

\* A handler from its call to its yield: the scan, the view, _text_to_image.
\* No await lies between them, so they are one step. _text_to_image either
\* fails before it creates the file, or creates it and fails in img.save()
\* (the file stays, None is returned), or returns the path of the saved file.
Handler(kind, rest, limit) ==
    /\ BagCardinality(frames) < limit
    /\ LET info == _load_plugins_info(plugins_info, root_readable, root)
           out == View(kind, info, rest)
       IN  /\ plugins_info' = info
           /\ \/ /\ out.raised
                 /\ frames' = frames (+) SetToBag({Frame(kind, rest, "raised", <<>>, NoPath,
                                                   0, NoPath, DiskScan)})
                 /\ files' = files
              \/ /\ ~out.raised
                 /\ frames' = frames (+) SetToBag({Frame(kind, rest, "yielded", out.text,
                                                   NoPath, out.target, NoPath, DiskScan)})
                 /\ files' = files
              \/ /\ ~out.raised
                 /\ \E path \in FreshPaths(DOMAIN files) :
                      /\ files' = WithFile(files, path, FileBody(FALSE, <<>>))
                      /\ frames' = frames (+) SetToBag({Frame(kind, rest, "yielded", out.text,
                                                        NoPath, out.target, path, DiskScan)})
              \/ /\ ~out.raised
                 /\ \E path \in FreshPaths(DOMAIN files) :
                      /\ files' = WithFile(files, path, FileBody(TRUE, Rendered(out.text)))
                      /\ frames' = frames (+) SetToBag({Frame(kind, rest, "yielded", out.text,
                                                        path, out.target, path, DiskScan)})
    /\ UNCHANGED <<self_dir, root_readable, root>>

\* A handler from its yield to its return (the generator is resumed, or closed
\* after a failed delivery): the finally block unlinks img_path if it is set
\* and the file exists. A handler that raised just ends.
Return(f) ==
    /\ f \in BagToSet(frames)
    /\ files' = IF f.pc = "yielded" /\ f.img_path # NoPath /\ f.img_path \in DOMAIN files
                 THEN WithoutFile(files, f.img_path)
                 ELSE files
    /\ frames' = frames (-) SetToBag({f})
    /\ UNCHANGED <<self_dir, root_readable, root, plugins_info>>

\* The four command handlers. limit is the number of invocations the host
\* lets be in progress at once; messages are the requests it may pass.
show_plugins_list(limit) == Handler("list", NoArg, limit)

show_plugin_details(messages, limit) ==
    \E rest \in messages : Handler("detail", rest, limit)

show_all_commands(limit) == Handler("commands", NoArg, limit)

refresh_plugins(limit) == Handler("refresh", NoArg, limit)

\* ------------------------------------------------------- the environment

Names(entries) == {entries[i].name : i \in 1..Len(entries)}

\* A plugin directory appears in the plugins root.  iterdir lists it after the
\* entries that were there; the other listing orders are those of Roots.
AddDir(catalog) ==
    /\ \E e \in catalog :
          /\ Len(root) < MaxRoot
          /\ e.name \notin Names(root)
          /\ root' = InsertAt(root, Len(root) + 1, e)
    /\ UNCHANGED <<self_dir, root_readable, plugins_info, files, frames>>

\* An entry other than the plugin's own directory is removed.
RemoveDir ==
    /\ \E i \in 1..Len(root) :
          /\ root[i].name # self_dir
          /\ root' = RemoveAt(root, i)
    /\ UNCHANGED <<self_dir, root_readable, plugins_info, files, frames>>

\* The permissions of the plugins root change.
Chmod ==
    /\ root_readable' = ~root_readable
    /\ UNCHANGED <<self_dir, root, plugins_info, files, frames>>

\* ------------------------------------------------------------ the inputs

Empty == [k \in {} |-> NoneV]

Fn(name, doc) ==
    Node("AsyncFunctionDef", <<Decorator(TRUE, Str(name))>>, doc, <<>>)

Cls(body) == Node("ClassDef", <<>>, <<>>, body)

Mod(body) == Node("Module", <<>>, <<>>, body)

\* class P: x, y -- the usual plugin: its commands are methods of one class.
TreeClass ==
    Mod(<< Cls(<< Fn(S1("x"), <<S1("f"), <<" ", "u", ":", "x">>, <<"u", ":", "y">>>>),
                  Fn(S1("y"), <<>>) >>) >>)

\* class P: x, then y at module level.
TreeMixed == Mod(<< Cls(<<Fn(S1("x"), <<>>)>>), Fn(S1("y"), <<S2(" ", "g")>>) >>)

\* Functions the extractor skips or reads twice: a decorator that is not
\* filter.command, an empty name, a name that is no constant, two commands
\* on one function, a function nested in a function.
TreeMisc ==
    Mod(<< Node("AsyncFunctionDef", <<Decorator(FALSE, NoneV)>>, <<>>, <<>>),
           Node("AsyncFunctionDef",
                <<Decorator(TRUE, Str(<<>>)), Decorator(TRUE, NoneV)>>, <<>>, <<>>),
           Node("AsyncFunctionDef",
                <<Decorator(TRUE, Str(S1("p"))), Decorator(TRUE, IntV(7))>>,
                <<S1("h")>>,
                <<Fn(S1("q"), <<>>)>>) >>)

MetaOk(m) == MetaFile("ok", DocMap(m))
MetaBad(st) == MetaFile(st, DocNone)
MainOk(tree) == MainFile("ok", tree)
MainBad(st) == MainFile(st, Mod(<<>>))

\* The plugin's own directory, under the name it is installed as.
OwnEntry(name) ==
    Entry(name, TRUE, MetaOk([name |-> Str(S1("s"))]), MainOk(TreeClass))

\* The entries a plugins root may hold besides the plugin's own directory.
Catalog ==
    { Entry(S1("a"), TRUE, MetaOk([name |-> Str(S2("a", "b")), desc |-> Str(S1("d"))]),
            MainOk(TreeMixed)),
      Entry(S1("a"), TRUE, MetaBad("absent"), MainBad("absent")),
      Entry(S2("a", "b"), TRUE, MetaOk([desc |-> Str(S1("e"))]), MainOk(TreeClass)),
      Entry(S2("a", "b"), TRUE, MetaFile("ok", DocScalar), MainBad("syntaxerr")),
      Entry(S1("b"), TRUE, MetaOk([name |-> Str(S1("b"))]), MainOk(TreeMisc)),
      Entry(S1("b"), TRUE, MetaOk([name |-> Str(S1("b"))]), MainBad("undecodable")),
      Entry(S1("b"), TRUE, MetaOk([name |-> IntV(1)]), MainBad("unreadable")),
      Entry(S1("b"), TRUE, MetaBad("undecodable"), MainBad("absent")),
      Entry(S1("b"), TRUE, MetaBad("malformed"), MainOk(TreeClass)),
      Entry(S1("b"), TRUE, MetaBad("unreadable"), MainBad("absent")),
      Entry(S1("b"), TRUE, MetaFile("ok", DocNone), MainBad("absent")),
      Entry(S1("f"), FALSE, MetaBad("absent"), MainBad("absent")) }

\* The names the plugin's own directory may be installed under.
InstallNames == {SelfName, S1("s")}

\* The requests to the detail view.
Messages ==
    { NoArg, S1("a"), S1("b"), S2("a", "b"), S1("z"), S1("s"), <<" ", "a", " ">>,
      S1("0"), S1("1"), S1("2"), S1("3"), S2("-", "1"), <<"1", "_", "0">> }

\* The listings of at most n entries with distinct names, the plugin's own
\* directory among them.
Roots(own, n) ==
    LET pool == Catalog \cup {OwnEntry(own)}
    IN  { r \in UNION {[1..k -> pool] : k \in 1..n} :
            /\ \A i, j \in 1..Len(r) : i # j => r[i].name # r[j].name
            /\ \E i \in 1..Len(r) : r[i].name = own }

\* ---------------------------------------------------- the specifications

\* After __init__ (which scans once), for any plugins root, readable or not,
\* and any name of the plugin's own directory.
InitScan ==
    /\ self_dir \in InstallNames
    /\ root_readable \in BOOLEAN
    /\ root \in Roots(self_dir, MaxRoot)
    /\ plugins_info = _load_plugins_info(<<>>, root_readable, root)
    /\ files = <<>>
    /\ frames = EmptyBag

\* The scan is run again by the refresh command.
NextScan ==
    \/ refresh_plugins(1)
    \/ \E f \in BagToSet(frames) : Return(f)

SpecScan == InitScan /\ [][NextScan]_vars

\* After __init__, for any plugins root, the plugin installed under the name
\* the scan skips.
InitViews ==
    /\ self_dir = SelfName
    /\ root_readable = TRUE
    /\ root \in Roots(self_dir, MaxRoot)
    /\ plugins_info = _load_plugins_info(<<>>, root_readable, root)
    /\ files = <<>>
    /\ frames = EmptyBag

\* Each handler runs to its return before the next request is taken, and the
\* disk does not change.
NextViews ==
    \/ show_plugins_list(1)
    \/ show_plugin_details(Messages, 1)
    \/ show_all_commands(1)
    \/ refresh_plugins(1)
    \/ \E f \in BagToSet(frames) : Return(f)

SpecViews == InitViews /\ [][NextViews]_vars

\* The directories that come and go while the process runs: a plugin that
\* loads, and one whose main.py ends the scan.
Installable ==
    { Entry(S1("a"), TRUE, MetaOk([name |-> Str(S2("a", "b")), desc |-> Str(S1("d"))]),
            MainOk(TreeMixed)),
      Entry(S1("b"), TRUE, MetaOk([name |-> Str(S1("b"))]), MainBad("undecodable")) }

\* The requests to the detail view while the process runs.
LiveMessages == {S1("1")}

\* After __init__, with the plugin alone in the plugins root.
Init ==
    /\ self_dir = SelfName
    /\ root_readable = TRUE
    /\ root = <<OwnEntry(self_dir)>>
    /\ plugins_info = _load_plugins_info(<<>>, root_readable, root)
    /\ files = <<>>
    /\ frames = EmptyBag

\* The host takes requests while earlier handlers are suspended at their
\* yield, and the disk changes between the steps.
Next ==
    \/ show_plugins_list(MaxInv)
    \/ show_plugin_details(LiveMessages, MaxInv)
    \/ show_all_commands(MaxInv)
    \/ refresh_plugins(MaxInv)
    \/ \E f \in BagToSet(frames) : Return(f)
    \/ AddDir(Installable)
    \/ RemoveDir
    \/ Chmod

Spec == Init /\ [][Next]_vars

\* ------------------------------------------------------------- the claims

Frames == BagToSet(frames)

NameSeq(records) == [i \in 1..Len(records) |-> records[i].name]

\* The immediate subdirectories of the plugins root other than the directory
\* that holds the plugin, in scan order.
Subdirs == SelectSeq(root, LAMBDA e : e.isdir /\ e.name # self_dir)

HasRecord(name) == \E i \in 1..Len(plugins_info) : plugins_info[i].name = name

\* The display name of a scanned plugin: its metadata name, or its directory
\* name when it has none.
DisplayName(plugin) ==
    IF plugin.metadata.t = "map" /\ "name" \in DOMAIN plugin.metadata.m
    THEN Fmt(plugin.metadata.m["name"]) ELSE plugin.name

\* The display name of a directory on disk.
DisplayOnDisk(e) == DisplayName(PluginInfo(e.name, LoadedMetadata(e.meta), <<>>))

\* A read or parse of one of the entry's two files fails.
Failing(e) ==
    \/ e.meta.st \in {"malformed", "unreadable", "undecodable"}
    \/ e.main.st \in {"syntaxerr", "unreadable", "undecodable"}

LinesOf(text, kinds) == SelectSeq(text, LAMBDA l : l.k \in kinds)

\* C1: a handler that returns leaves no temporary file that _text_to_image
\* created during it, on every exit path (also when rendering failed after the
\* file had been created).
C1_TempFileGoneAtReturn ==
    [][\A f \in Frames :
          (frames' = frames (-) SetToBag({f}) /\ f.created # NoPath)
              => f.created \notin DOMAIN files']_vars

\* C2: a failure while reading or parsing one plugin's files is isolated to
\* that plugin: every other subdirectory, before or after it in scan order,
\* has a record in plugins_info.
C2_FailureIsolated ==
    \A i, j \in 1..Len(root) :
        (i # j /\ root[i].isdir /\ Failing(root[i])
             /\ root[j].isdir /\ root[j].name \notin {self_dir, SelfName})
            => HasRecord(root[j].name)

\* C3: a plugin whose record has metadata None is a numbered entry of the
\* listing, named by its directory name and with the default description, and
\* the handler does not raise.
C3_NoMetadataListed ==
    \A f \in Frames : \A i \in 1..Len(f.own_scan) :
        (f.kind = "list" /\ f.own_scan[i].metadata = DocNone)
            => /\ f.pc = "yielded"
               /\ \E k \in 1..(Len(f.text) - 1) :
                     /\ f.text[k] = Line("entry", i, f.own_scan[i].name)
                     /\ f.text[k + 1] = Line("desc", 0, Fmt(NoDesc))

\* The query of a detail request.
QueryOf(f) == Strip(LStrip(f.rest))

\* C4: the detail view with a number outside 1..N, or with a string contained
\* in no plugin's display name or directory name, gives the "not found"
\* message and does not raise, whatever the plugins' metadata is.
C4_NotFoundNeverRaises ==
    \A f \in Frames :
        (/\ f.kind = "detail"
         /\ LStrip(f.rest) # <<>>
         /\ IF ParseInt(QueryOf(f)).ok
            THEN ParseInt(QueryOf(f)).n \notin 1..Len(f.own_scan)
            ELSE \A i \in 1..Len(f.own_scan) :
                    /\ ~Contains(QueryOf(f), DisplayName(f.own_scan[i]))
                    /\ ~Contains(QueryOf(f), f.own_scan[i].name))
            => /\ f.pc = "yielded"
               /\ f.text = <<Line("not_found", 0, QueryOf(f))>>

\* C5: the detail view asked for the exact display name of the i-th plugin
\* selects the record the detail view asked for the number i selects.
C5_NameLookupIsIndexLookup ==
    \A f \in Frames : \A i \in 1..Len(f.own_scan) :
        (/\ f.kind = "detail"
         /\ LStrip(f.rest) # <<>>
         /\ QueryOf(f) = DisplayName(f.own_scan[i]))
            => /\ f.pc = "yielded"
               /\ f.target = FindByIndex(f.own_scan, i).target

\* Depth first, in the order of the source text.
RECURSIVE Preorder(_)
Preorder(nodes) ==
    IF nodes = <<>> THEN <<>>
    ELSE <<Head(nodes)>> \o Preorder(Head(nodes).body) \o Preorder(Tail(nodes))

\* The command names of a directory in the order its main.py declares them.
DeclaredNames(e) ==
    LET cmds == IF e.main.st = "ok" THEN CommandsOf(Preorder(<<e.main.tree>>)) ELSE <<>>
    IN  [k \in 1..Len(cmds) |-> Fmt(cmds[k].name)]

\* The command lines that follow the header at place h, up to the next header.
RECURSIVE GroupAfter(_, _)
GroupAfter(lines, h) ==
    IF h + 1 > Len(lines) \/ lines[h + 1].k = "group" THEN <<>>
    ELSE <<lines[h + 1].s>> \o GroupAfter(lines, h + 1)

\* C6: in the catalogue the groups are in ascending order of display name,
\* each plugin with commands has its header, and the commands under it are in
\* the order main.py declares them, for every nesting of the functions.
C6_CatalogueOrder ==
    \A f \in Frames :
        (f.kind = "commands" /\ f.pc = "yielded")
            => LET lines == LinesOf(f.text, {"group", "cmd"})
                   heads == LinesOf(f.text, {"group"})
               IN  /\ \A k \in 1..(Len(heads) - 1) : ~StrLess(heads[k + 1].s, heads[k].s)
                   /\ \A i \in 1..Len(root) :
                         (root[i].isdir /\ root[i].name # self_dir
                              /\ DeclaredNames(root[i]) # <<>>)
                             => \E h \in 1..Len(lines) :
                                   /\ lines[h] = Line("group", 0, DisplayOnDisk(root[i]))
                                   /\ GroupAfter(lines, h) = DeclaredNames(root[i])

\* C7: the listing has exactly one numbered entry for each of the N
\* subdirectories other than the plugin's own, numbered 1..N in scan order,
\* and is the "nothing found" message when N = 0.
C7_ListingCountsDirs ==
    \A f \in Frames :
        f.kind = "list"
            => /\ f.pc = "yielded"
               /\ IF Subdirs = <<>> THEN f.text = <<Line("no_plugins", 0, <<>>)>>
                  ELSE LET entries == LinesOf(f.text, {"entry"})
                       IN  /\ Len(entries) = Len(Subdirs)
                           /\ \A i \in 1..Len(entries) :
                                 entries[i] = Line("entry", i, DisplayOnDisk(Subdirs[i]))

\* C8: the plugin set a handler works on is that of the subdirectories present
\* when it is invoked: what was added before it is in it, what was removed is
\* not; when the scan fails (the root cannot be listed) no record of an earlier
\* scan is left.
C8_ScanIsCurrent ==
    [][BagCardinality(frames') > BagCardinality(frames)
          => IF root_readable THEN NameSeq(plugins_info') = NameSeq(Subdirs)
             ELSE plugins_info' = <<>>]_vars

\* C9: the scan gives exactly one record for each immediate subdirectory of
\* the plugins root except the directory that holds the plugin, whatever name
\* that directory has.
C9_ScanIsSubdirs ==
    root_readable => NameSeq(plugins_info) = NameSeq(Subdirs)

\* C10: while handlers are suspended at their yields in any interleaving, the
\* text of each is the view of the scan made when it began, its image file
\* exists and shows that text, and the file a handler will unlink is the one
\* it created and no other handler's.
C10_HandlersIndependent ==
    \A f \in Frames :
        f.pc = "yielded"
            => /\ f.text = View(f.kind, f.own_scan, f.rest).text
               /\ f.img_path # NoPath
                     => /\ f.img_path = f.created
                        /\ f.img_path \in DOMAIN files
                        /\ files[f.img_path] = FileBody(TRUE, Rendered(f.text))
                        /\ CopiesIn(f, frames) = 1
                        /\ \A g \in Frames : g # f => g.img_path # f.img_path

C10_Witness ==
    \E f, g \in Frames :
        /\ f.pc = "yielded" /\ g.pc = "yielded"
        /\ f.img_path # NoPath /\ g.img_path # NoPath
        /\ f.kind = "list" /\ g.kind = "list"
        /\ f.own_scan # g.own_scan
        /\ plugins_info # f.own_scan

====
